---------------------------- MODULE Spec2Model ----------------------------
(***************************************************************************)
(* A model of the logo data-collection pipeline (src/data_collection):     *)
(*   - merge_repos            (download_logo.py)                           *)
(*   - find_logo_in_repo      (download_logo.py)                           *)
(*   - is_minimal_style       (filter_minimal.py)                          *)
(*   - convert_svg_to_png     (svg_to_png.py)                              *)
(*   - download_repo_logos    (download_logo.py)                           *)
(*   - filter_minimal_logos   (filter_minimal.py)                          *)
(*   - batch_convert          (svg_to_png.py)                              *)
(*   - fetch_starred_repos    (fetch_starred.py)                           *)
(* Each component has its own specification (SpecMerge, SpecLocator,       *)
(* SpecFilter, SpecRaster, SpecDownload, SpecFilterBatch,                  *)
(* SpecConvertBatch, SpecFetchStarred); the variables of the other         *)
(* components stay at their idle values.                                   *)
(***************************************************************************)
EXTENDS Integers, Sequences, FiniteSets, TLC

(***************************************************************************)
(* Bounds of the model.                                                    *)
(***************************************************************************)
\* longest starred / trending list read by merge_repos
MaxRepos == 2
\* most entries of the repository's root directory
MaxEntries == 2
\* most calls of convert_svg_to_png for one target path
MaxCalls == 2
\* repositories handed to download_repo_logos
MaxItems == 2
\* entries of the metadata list read by filter_minimal_logos
MaxMetadata == 2
\* *.svg files found by batch_convert
MaxFiles == 2
\* the limit and per_page arguments of fetch_starred_repos, and the number of
\* repositories the upstream ranking holds
MaxLimit == 5
MaxPerPage == 3
MaxTotal == 6

(***************************************************************************)
(* Generic helpers.                                                        *)
(***************************************************************************)
\* all sequences over S of length 0..n
SeqUpTo(S, n) == UNION {[1..k -> S] : k \in 0..n}


(***************************************************************************)
(* Python strings are sequences of one-character strings, so that lower(), *)
(* endswith(), the substring test and split(".") are computed and not      *)
(* assumed.                                                                *)
(***************************************************************************)
\* str.lower() on one character (ASCII letters)
LowerChar(c) ==
    CASE c = "A" -> "a" [] c = "B" -> "b" [] c = "C" -> "c" [] c = "D" -> "d"
      [] c = "E" -> "e" [] c = "F" -> "f" [] c = "G" -> "g" [] c = "H" -> "h"
      [] c = "I" -> "i" [] c = "J" -> "j" [] c = "K" -> "k" [] c = "L" -> "l"
      [] c = "M" -> "m" [] c = "N" -> "n" [] c = "O" -> "o" [] c = "P" -> "p"
      [] c = "Q" -> "q" [] c = "R" -> "r" [] c = "S" -> "s" [] c = "T" -> "t"
      [] c = "U" -> "u" [] c = "V" -> "v" [] c = "W" -> "w" [] c = "X" -> "x"
      [] c = "Y" -> "y" [] c = "Z" -> "z" [] OTHER -> c

\* str.lower()
Lower(s) == [k \in 1..Len(s) |-> LowerChar(s[k])]

\* s.endswith(suffix)
EndsWith(s, suffix) ==
    /\ Len(suffix) <= Len(s)
    /\ SubSeq(s, Len(s) - Len(suffix) + 1, Len(s)) = suffix

\* sub in s
Contains(s, sub) ==
    \E k \in 1..(Len(s) - Len(sub) + 1) : SubSeq(s, k, k + Len(sub) - 1) = sub

\* s.split(".")[-1]: what follows the last "." of s, all of s when it has none
LastDotPart(s) ==
    LET dots == {k \in 1..Len(s) : s[k] = "."}
    IN  IF dots = {} THEN s
        ELSE LET last == CHOOSE k \in dots : \A j \in dots : j <= k
             IN  SubSeq(s, last + 1, Len(s))

\* os.path.join / the contents API's "path" of an entry `name` of directory `dir`
JoinPath(dir, name) == IF dir = <<>> THEN name ELSE dir \o <<"/">> \o name

\* the string literals of download_logo.py and filter_minimal.py
s_svg == <<"s","v","g">>
s_png == <<"p","n","g">>
s_jpg == <<"j","p","g">>
s_jpeg == <<"j","p","e","g">>
s_gif == <<"g","i","f">>
s_logo == <<"l","o","g","o">>
s_icon == <<"i","c","o","n">>
s_assets == <<"a","s","s","e","t","s">>
s_docs == <<"d","o","c","s">>
s_images == <<"i","m","a","g","e","s">>
s_static == <<"s","t","a","t","i","c">>
s_public == <<"p","u","b","l","i","c">>
s_src == <<"s","r","c">>
s_app == <<"a","p","p">>
s_brand == <<"b","r","a","n","d">>
s_media == <<"m","e","d","i","a">>
s_resources == <<"r","e","s","o","u","r","c","e","s">>
s_art == <<"a","r","t">>
s_design == <<"d","e","s","i","g","n">>
s_img == <<"i","m","g">>

VARIABLES
    \* ---- merge_repos ----
    mpc,            \* position in merge_repos
    starredFile,    \* [exists, repos]: the file at starred_path
    trendingFile,   \* [exists, repos]: the file at trending_path
    all_repos,      \* local all_repos
    seen,           \* local seen
    unique_repos,   \* local unique_repos
    mi,             \* index of the dedup loop over all_repos (1-based)
    mergedFile,     \* [exists, repos]: the file at output_path
    mergeReport,    \* the two counts printed: <<len(all_repos), len(unique_repos)>>
    \* ---- find_logo_in_repo ----
    fpc,            \* position in find_logo_in_repo
    fi,             \* index of the loop over LOGO_PATHS (1-based)
    fetchLog,       \* the paths passed to get_file_from_repo, in call order
    lastFetch,      \* what the latest get_file_from_repo call returned
    truthyFetches,  \* how many get_file_from_repo calls returned non-empty bytes
    emptyFetched,   \* whether some get_file_from_repo call returned empty bytes
    repoTree,       \* the repository's root listing when list_repo_images ran
    failedDirs,     \* the directories whose listing request failed
    listLog,        \* the directories list_repo_images requested, in call order
    logo_files,     \* local logo_files
    fj,             \* index of the loop over logo_files (1-based)
    findResult,     \* the (content, ext) pair returned
    \* ---- is_minimal_style ----
    qpc,            \* position in is_minimal_style
    image_path,     \* argument image_path
    imageFile,      \* the file at image_path
    max_color_threshold, \* argument max_color_threshold
    min_size,       \* argument min_size
    max_size,       \* argument max_size
    result,         \* local result, the FilterResult returned
    passedRet,      \* the boolean returned beside result
    thumbColors,    \* distinct colours of the thumbnail count_colors made (0: none made)
    pixelOps,       \* the pixel-analysis calls made, in order
    \* ---- convert_svg_to_png ----
    rpc,            \* position in convert_svg_to_png
    method,         \* argument method, reassigned in auto mode
    installed,      \* which converters the machine has
    outDirExists,   \* whether the directory of png_path exists
    targetFile,     \* the file at png_path: [exists, content]
    targetAtCall,   \* the file at png_path when the current call began
    calls,          \* calls of convert_svg_to_png so far
    backendLog,     \* backend probes and invocations of the current call
    convRet,        \* what the latest call returned
    \* ---- download_repo_logos ----
    dpc,            \* position in download_repo_logos
    repos,          \* argument repos
    upstream,       \* what find_logo_in_repo returns for each repository
    disk,           \* the files of output_dir
    diskAtRun,      \* the files of output_dir when the current run began
    results,        \* local results
    di,             \* index of the loop over repos (1-based)
    found,          \* the (content, ext) pair of the current item
    run,            \* 1: the first run; 2: the run after an interrupted one
    saveFailed,     \* whether some save_logo call returned False
    netLog,         \* per run: "find" for an item's requests, "sleep" for a delay
    \* ---- filter_minimal_logos ----
    bpc,            \* position in filter_minimal_logos
    metadata,       \* local repos: the list read from metadata_path
    batch_max_colors, \* argument max_colors
    bi,             \* index of the loop over the list (1-based)
    filtered,       \* local filtered
    analysis_results, \* local analysis_results
    copied,         \* the images copied into output_dir
    stateFiles,     \* the two JSON files written at the end
    raised,         \* the exception that left the function, if any
    \* ---- batch_convert ----
    kpc,            \* position in batch_convert
    svg_files,      \* local svg_files: for each, the file at its PNG path
    batchMethod,    \* argument method, reassigned in auto mode
    methodArg,      \* the method argument as passed by the caller
    converters,     \* which converters the machine has
    ki,             \* index of the loop over svg_files (1-based)
    success_count,  \* local success_count
    callLog,        \* the convert_svg_to_png calls made: method passed, result
    probeLog,       \* the availability probes made
    batchRet,       \* what batch_convert returned (-1: not yet)
    \* ---- fetch_starred_repos ----
    spc,            \* position in fetch_starred_repos
    limit,          \* argument limit
    per_page,       \* argument per_page
    total,          \* how many repositories the upstream ranking holds
    page,           \* loop variable page
    fetched,        \* local repos: the ranks collected so far
    requestLog,     \* the page and per_page parameters of each request sent
    anyFailed,      \* whether some request raised
    starredRet      \* the list returned

mergeVars == <<mpc, starredFile, trendingFile, all_repos, seen, unique_repos,
               mi, mergedFile, mergeReport>>

locVars == <<fpc, fi, fetchLog, lastFetch, truthyFetches, emptyFetched, repoTree, failedDirs,
             listLog, logo_files, fj, findResult>>

filtVars == <<qpc, image_path, imageFile, max_color_threshold, min_size, max_size,
              result, passedRet, thumbColors, pixelOps>>

rastVars == <<rpc, method, installed, outDirExists, targetFile, targetAtCall, calls,
              backendLog, convRet>>

dlVars == <<dpc, repos, upstream, disk, diskAtRun, results, di, found, run,
            saveFailed, netLog>>

bfVars == <<bpc, metadata, batch_max_colors, bi, filtered, analysis_results, copied,
            stateFiles, raised>>

bcVars == <<kpc, svg_files, batchMethod, methodArg, converters, ki, success_count, callLog,
            probeLog, batchRet>>

fsVars == <<spc, limit, per_page, total, page, fetched, requestLog, anyFailed,
            starredRet>>

vars == <<mergeVars, locVars, filtVars, rastVars, dlVars, bfVars, bcVars, fsVars>>

\* what the steps of one component leave alone: the other components
MergeFrame == UNCHANGED <<locVars, filtVars, rastVars, dlVars, bfVars, bcVars, fsVars>>
LocFrame == UNCHANGED <<mergeVars, filtVars, rastVars, dlVars, bfVars, bcVars, fsVars>>
FiltFrame == UNCHANGED <<mergeVars, locVars, rastVars, dlVars, bfVars, bcVars, fsVars>>
RastFrame == UNCHANGED <<mergeVars, locVars, filtVars, dlVars, bfVars, bcVars, fsVars>>
DlFrame == UNCHANGED <<mergeVars, locVars, filtVars, rastVars, bfVars, bcVars, fsVars>>
BfFrame == UNCHANGED <<mergeVars, locVars, filtVars, rastVars, dlVars, bcVars, fsVars>>
BcFrame == UNCHANGED <<mergeVars, locVars, filtVars, rastVars, dlVars, bfVars, fsVars>>
FsFrame == UNCHANGED <<mergeVars, locVars, filtVars, rastVars, dlVars, bfVars, bcVars>>

(***************************************************************************)
(* merge_repos (download_logo.py:220-256)                                  *)
(***************************************************************************)
\* a record that has no "source" key
NoSource == "<no source key>"

FullNames == {"a/x", "b/y"}

\* a repository record as stored in a JSON list file; the other fields of the
\* record (stars, description, ...) are carried along untouched and are
\* represented, once the record is loaded, by the identity `obj` of the
\* loaded dict (which list it came from and its position there)
FileRecords == [full_name : FullNames, source : {NoSource, "trending_daily"}]

NoFile == [exists |-> FALSE, repos |-> <<>>]

RepoFiles ==
    {NoFile} \cup {[exists |-> TRUE, repos |-> r] : r \in SeqUpTo(FileRecords, MaxRepos)}

\* json.load of a list file: one dict per entry
Load(file, which) ==
    [k \in 1..Len(file.repos) |->
        [full_name |-> file.repos[k].full_name,
         source    |-> file.repos[k].source,
         obj       |-> <<which, k>>]]

\* download_logo.py:230-231   for repo in starred: repo["source"] = "starred"
TagStarred(repo) == [repo EXCEPT !.source = "starred"]

\* download_logo.py:238-240   if "source" not in repo: repo["source"] = "trending"
TagTrending(repo) ==
    IF repo.source = NoSource THEN [repo EXCEPT !.source = "trending"] ELSE repo

\* download_logo.py:232, 241   all_repos.extend(lst)
ExtendFront(lst, more) == more \o lst
Extend(lst, more) == lst \o more

\* download_logo.py:247   if repo["full_name"] not in seen
AlwaysNew(repo, seenSet) == TRUE
NotSeen(repo, seenSet) == repo.full_name \notin seenSet

MergeInit ==
    /\ mpc = "read_starred"
    /\ starredFile \in RepoFiles
    /\ trendingFile \in RepoFiles
    /\ all_repos = <<>>
    /\ seen = {}
    /\ unique_repos = <<>>
    /\ mi = 1
    /\ mergedFile = NoFile
    /\ mergeReport = <<>>

\* download_logo.py:226-232
ReadStarred ==
    /\ MergeFrame
    /\ mpc = "read_starred"
    /\ all_repos' =
         IF starredFile.exists
         THEN LET starred == Load(starredFile, "starred")
              IN  Extend(all_repos, [k \in 1..Len(starred) |-> TagStarred(starred[k])])
         ELSE all_repos
    /\ mpc' = "read_trending"
    /\ UNCHANGED <<starredFile, trendingFile, seen, unique_repos, mi, mergedFile,
                   mergeReport>>

\* download_logo.py:234-241
ReadTrending ==
    /\ MergeFrame
    /\ mpc = "read_trending"
    /\ all_repos' =
         IF trendingFile.exists
         THEN LET trending == Load(trendingFile, "trending")
              IN  Extend(all_repos, [k \in 1..Len(trending) |-> TagTrending(trending[k])])
         ELSE all_repos
    /\ mpc' = "dedup"
    /\ UNCHANGED <<starredFile, trendingFile, seen, unique_repos, mi, mergedFile,
                   mergeReport>>

\* download_logo.py:246-249, one iteration of  for repo in all_repos
DedupStep ==
    /\ MergeFrame
    /\ mpc = "dedup"
    /\ mi <= Len(all_repos)
    /\ LET repo == all_repos[mi]
       IN  IF NotSeen(repo, seen)
           THEN /\ seen' = seen \cup {repo.full_name}
                /\ unique_repos' = Append(unique_repos, repo)
           ELSE UNCHANGED <<seen, unique_repos>>
    /\ mi' = mi + 1
    /\ UNCHANGED <<mpc, starredFile, trendingFile, all_repos, mergedFile, mergeReport>>

\* download_logo.py:251-256: json.dump, print of the counts, return unique_repos
SaveMerged ==
    /\ MergeFrame
    /\ mpc = "dedup"
    /\ mi > Len(all_repos)
    /\ mergedFile' = [exists |-> TRUE, repos |-> unique_repos]
    /\ mergeReport' = <<Len(all_repos), Len(unique_repos)>>
    /\ mpc' = "done"
    /\ UNCHANGED <<starredFile, trendingFile, all_repos, seen, unique_repos, mi>>


(***************************************************************************)
(* find_logo_in_repo, get_file_from_repo, list_repo_images                 *)
(* (download_logo.py:17-159)                                               *)
(***************************************************************************)
\* download_logo.py:17-35, in the order written (docs/logo.svg is listed three
\* times there)
CandidatePath(dir, stem, ext) == JoinPath(dir, stem \o <<".">> \o ext)

LOGO_PATHS ==
    << CandidatePath(<<>>, s_logo, s_svg),      CandidatePath(<<>>, s_icon, s_svg),
       CandidatePath(<<>>, s_logo, s_png),      CandidatePath(<<>>, s_icon, s_png),
       CandidatePath(s_assets, s_logo, s_svg),  CandidatePath(s_assets, s_icon, s_svg),
       CandidatePath(s_assets, s_logo, s_png),  CandidatePath(s_assets, s_icon, s_png),
       CandidatePath(s_docs, s_logo, s_svg),    CandidatePath(s_docs, s_logo, s_svg),
       CandidatePath(s_docs, s_logo, s_png),    CandidatePath(s_docs, s_logo, s_svg),
       CandidatePath(s_images, s_logo, s_svg),  CandidatePath(s_images, s_icon, s_svg),
       CandidatePath(s_images, s_logo, s_png),  CandidatePath(s_images, s_icon, s_png),
       CandidatePath(s_static, s_logo, s_svg),  CandidatePath(s_static, s_icon, s_svg),
       CandidatePath(s_static, s_logo, s_png),  CandidatePath(s_static, s_icon, s_png),
       CandidatePath(s_public, s_logo, s_svg),  CandidatePath(s_public, s_icon, s_svg),
       CandidatePath(s_public, s_logo, s_png),  CandidatePath(s_public, s_icon, s_png),
       CandidatePath(s_src, s_logo, s_svg),     CandidatePath(s_src, s_icon, s_svg),
       CandidatePath(s_app, s_logo, s_svg),     CandidatePath(s_app, s_icon, s_svg),
       CandidatePath(s_brand, s_logo, s_svg),   CandidatePath(s_brand, s_icon, s_svg),
       CandidatePath(s_media, s_logo, s_svg),   CandidatePath(s_media, s_icon, s_svg),
       CandidatePath(s_resources, s_logo, s_svg), CandidatePath(s_resources, s_icon, s_svg) >>

\* download_logo.py:91   ('png', 'svg', 'jpg', 'jpeg', 'gif')
ACCEPTED_EXTS == {s_png, s_svg, s_jpg, s_jpeg, s_gif}

\* download_logo.py:148-151
IMAGE_DIRS == {s_assets, s_images, s_static, s_public, s_docs, s_media, s_brand,
               s_resources, s_art, s_design, s_img}

\* What get_file_from_repo returns: None (404, any error, not a file, no
\* download_url) or the bytes of the file, which may be empty.
None == [isNone |-> TRUE, size |-> 0, from |-> <<>>]
Bytes(path, n) == [isNone |-> FALSE, size |-> n, from |-> path]

\* download_logo.py:38-75: every call may fail or find the file; the file's
\* content is empty or not
FetchOutcomes(path) == {None, Bytes(path, 0), Bytes(path, 1)}

\* Python's truth value of  content  (download_logo.py:88, 102, 109)
NotNone(content) == ~content.isNone
Truthy(content) == ~content.isNone /\ content.size > 0

\* download_logo.py:89, 103, 110   path.split(".")[-1].lower()
ExtOf(path) == Lower(LastDotPart(path))

\* download_logo.py:145-146   name.lower() ends with one of image_exts
IsImageName(name) ==
    \E ext \in ACCEPTED_EXTS : EndsWith(Lower(name), <<".">> \o ext)

\* download_logo.py:99-100
IsNamed(filename) ==
    Contains(Lower(filename), s_logo) \/ Contains(Lower(filename), s_icon)

\* entries of a directory listing (download_logo.py:143-151)
FileEntry(name) == [type |-> "file", name |-> name, entries |-> <<>>]
DirEntry(name, entries) == [type |-> "dir", name |-> name, entries |-> entries]

n_plain == <<"b",".","p","n","g">>
n_Icon == <<"I","c","o","n",".","P","N","G">>
n_mylogo == <<"m","y","l","o","g","o",".","j","p","g">>
n_readme == <<"x",".","m","d">>
n_Docs == <<"D","o","c","s">>

\* the repositories listed: file and directory names with and without
\* "logo"/"icon", in lower and upper case, images and not
FileNames == {n_plain, n_Icon, n_mylogo, n_readme}
SubListings ==
    { <<>>,
      <<FileEntry(n_plain)>>,
      <<FileEntry(n_mylogo), FileEntry(n_plain)>>,
      <<DirEntry(s_img, <<FileEntry(n_Icon)>>), FileEntry(n_plain)>>,
      <<DirEntry(s_img, <<DirEntry(s_art, <<FileEntry(n_mylogo)>>),
                          FileEntry(n_Icon)>>)>> }
RootEntries ==
    {FileEntry(n) : n \in FileNames}
        \cup {DirEntry(n_Docs, l) : l \in SubListings}
        \cup {DirEntry(s_assets, <<>>),
              DirEntry(s_assets, <<FileEntry(n_mylogo), FileEntry(n_plain)>>)}
        \cup {DirEntry(s_src, <<DirEntry(s_img, <<FileEntry(n_Icon)>>), FileEntry(n_plain)>>)}
Trees ==
    {t \in SeqUpTo(RootEntries, MaxEntries) :
        \A p, q \in 1..Len(t) : t[p].name = t[q].name => p = q}

\* download_logo.py:148-151: the entries list_repo_images recurses into
DescendsAnyDir(item) == item.type = "dir"
Descends(item) == item.type = "dir" /\ Lower(item.name) \in IMAGE_DIRS

RECURSIVE ListImages(_, _, _)
RECURSIVE WalkEntries(_, _, _)
\* download_logo.py:147, 154   images.append / images.extend
ImagesFirst(images, more) == more \o images
ImagesExtend(images, more) == images \o more
\* download_logo.py:116-159   list_repo_images(owner, repo, path); a request
\* that fails (status, exception, not a list) yields []
ListImages(path, entries, failed) ==
    IF path \in failed THEN <<>> ELSE WalkEntries(path, entries, failed)
\* download_logo.py:143-154   for item in items
WalkEntries(dir, entries, failed) ==
    IF entries = <<>> THEN <<>>
    ELSE LET item == Head(entries)
             here ==
                 IF item.type = "file"
                 THEN IF IsImageName(item.name)
                      THEN <<JoinPath(dir, item.name)>> ELSE <<>>
                 ELSE IF Descends(item)
                      THEN ListImages(JoinPath(dir, item.name), item.entries, failed)
                      ELSE <<>>
         IN  ImagesExtend(here, WalkEntries(dir, Tail(entries), failed))

RECURSIVE ListRequests(_, _, _)
RECURSIVE WalkRequests(_, _, _)
\* download_logo.py:131-135, 153: the listing requests list_repo_images sends
ListRequests(path, entries, failed) ==
    <<path>> \o (IF path \in failed THEN <<>> ELSE WalkRequests(path, entries, failed))
WalkRequests(dir, entries, failed) ==
    IF entries = <<>> THEN <<>>
    ELSE LET item == Head(entries)
             here ==
                 IF Descends(item)
                 THEN ListRequests(JoinPath(dir, item.name), item.entries, failed)
                 ELSE <<>>
         IN  here \o WalkRequests(dir, Tail(entries), failed)

Range(s) == {s[k] : k \in 1..Len(s)}

NoneResult == [content |-> None, ext |-> <<>>]

\* download_logo.py:106-107: where the loop over logo_files leads when no
\* logo/icon-named file yielded content
ReturnAbsence == "absent"
AfterNamedLoop == "first"

LocIdle ==
    /\ fpc = "idle" /\ fi = 1 /\ fetchLog = <<>> /\ lastFetch = None
    /\ truthyFetches = 0 /\ emptyFetched = FALSE /\ repoTree = <<>> /\ failedDirs = {} /\ listLog = <<>>
    /\ logo_files = <<>> /\ fj = 1 /\ findResult = NoneResult

LocInit ==
    /\ fpc = "probe" /\ fi = 1 /\ fetchLog = <<>> /\ lastFetch = None
    /\ truthyFetches = 0 /\ emptyFetched = FALSE /\ repoTree = <<>> /\ failedDirs = {} /\ listLog = <<>>
    /\ logo_files = <<>> /\ fj = 1 /\ findResult = NoneResult

\* one call of get_file_from_repo(owner, repo, path) returning content
Fetched(path, content) ==
    /\ fetchLog' = Append(fetchLog, path)
    /\ lastFetch' = content
    /\ truthyFetches' = truthyFetches + (IF content.isNone \/ content.size = 0 THEN 0 ELSE 1)
    /\ emptyFetched' = (emptyFetched \/ (~content.isNone /\ content.size = 0))

\* download_logo.py:86-92, one iteration of  for path in LOGO_PATHS
ProbeCandidate ==
    /\ LocFrame
    /\ fpc = "probe"
    /\ LET path == LOGO_PATHS[fi]
       IN  \E content \in FetchOutcomes(path) :
             /\ Fetched(path, content)
             /\ IF Truthy(content) /\ ExtOf(path) \in ACCEPTED_EXTS
                THEN /\ findResult' = [content |-> content, ext |-> ExtOf(path)]
                     /\ fpc' = "done"
                     /\ fi' = fi
                ELSE /\ fi' = fi + 1
                     /\ fpc' = IF fi = Len(LOGO_PATHS) THEN "list" ELSE "probe"
                     /\ UNCHANGED findResult
    /\ UNCHANGED <<repoTree, failedDirs, listLog, logo_files, fj>>

\* download_logo.py:95-96   logo_files = list_repo_images(owner, repo)
ListRepoImages ==
    /\ LocFrame
    /\ fpc = "list"
    /\ \E tree \in Trees :
         \E failed \in SUBSET Range(ListRequests(<<>>, tree, {})) :
           /\ repoTree' = tree
           /\ failedDirs' = failed
           /\ listLog' = ListRequests(<<>>, tree, failed)
           /\ logo_files' = ListImages(<<>>, tree, failed)
           /\ fpc' = IF ListImages(<<>>, tree, failed) = <<>> THEN "absent" ELSE "named"
    /\ fj' = 1
    /\ UNCHANGED <<fi, fetchLog, lastFetch, truthyFetches, emptyFetched, findResult>>

\* download_logo.py:98-104, one iteration of  for filename in logo_files
NamedStep ==
    /\ LocFrame
    /\ fpc = "named"
    /\ fj <= Len(logo_files)
    /\ LET filename == logo_files[fj]
       IN  IF IsNamed(filename)
           THEN \E content \in FetchOutcomes(filename) :
                  /\ Fetched(filename, content)
                  /\ IF Truthy(content)
                     THEN /\ findResult' = [content |-> content, ext |-> ExtOf(filename)]
                          /\ fpc' = "done"
                          /\ fj' = fj
                     ELSE /\ fj' = fj + 1
                          /\ UNCHANGED <<fpc, findResult>>
           ELSE /\ fj' = fj + 1
                /\ UNCHANGED <<fpc, findResult, fetchLog, lastFetch, truthyFetches, emptyFetched>>
    /\ UNCHANGED <<fi, repoTree, failedDirs, listLog, logo_files>>

\* the loop over logo_files is exhausted
NamedLoopEnd ==
    /\ LocFrame
    /\ fpc = "named"
    /\ fj > Len(logo_files)
    /\ fpc' = AfterNamedLoop
    /\ UNCHANGED <<fi, fetchLog, lastFetch, truthyFetches, emptyFetched, repoTree, failedDirs,
                   listLog, logo_files, fj, findResult>>

\* download_logo.py:107-111   first_img = logo_files[0]
FirstImage ==
    /\ LocFrame
    /\ fpc = "first"
    /\ LET first_img == logo_files[1]
       IN  \E content \in FetchOutcomes(first_img) :
             /\ Fetched(first_img, content)
             /\ IF Truthy(content)
                THEN /\ findResult' = [content |-> content, ext |-> ExtOf(first_img)]
                     /\ fpc' = "done"
                ELSE /\ fpc' = "absent"
                     /\ UNCHANGED findResult
    /\ UNCHANGED <<fi, repoTree, failedDirs, listLog, logo_files, fj>>

\* download_logo.py:113   return None, None
ReturnNone ==
    /\ LocFrame
    /\ fpc = "absent"
    /\ findResult' = NoneResult
    /\ fpc' = "done"
    /\ UNCHANGED <<fi, fetchLog, lastFetch, truthyFetches, emptyFetched, repoTree, failedDirs,
                   listLog, logo_files, fj>>

LocNext ==
    ProbeCandidate \/ ListRepoImages \/ NamedStep \/ NamedLoopEnd \/ FirstImage
        \/ ReturnNone


(***************************************************************************)
(* count_colors, analyze_dominant_colors, is_minimal_style                 *)
(* (filter_minimal.py:15-159)                                              *)
(***************************************************************************)
\* filter_minimal.py:15   max_colors: int = 256
MAX_COLORS == 256
\* filter_minimal.py:37   img.thumbnail((100, 100))
THUMBNAIL == 100
\* filter_minimal.py:92   max_color_threshold: int = 10
DEFAULT_THRESHOLD == 10
\* filter_minimal.py:93   min_size = (64, 64)
DEFAULT_MIN == 64
\* filter_minimal.py:94   max_size = (2048, 2048)
DEFAULT_MAX == 2048
\* filter_minimal.py:53   n_colors: int = 5
N_DOMINANT == 5
\* filter_minimal.py:28, 119   the SVG marker
SVG_MARKER == -2
\* filter_minimal.py:50   the value for "cannot analyse"
ANALYSIS_FAILED == -1

Min(a, b) == IF a <= b THEN a ELSE b

p_a_svg == <<"a",".","s","v","g">>
p_a_SVG == <<"a",".","S","V","G">>
p_dot_Svg == <<".","S","v","g">>
p_a_png == <<"a",".","p","n","g">>
p_a_PNG == <<"a",".","P","N","G">>
p_asvg == <<"a","s","v","g">>
p_svg_png == <<"a",".","s","v","g",".","p","n","g">>

\* the paths is_minimal_style is called with
ImagePaths == {p_a_svg, p_a_SVG, p_dot_Svg, p_a_png, p_a_PNG, p_asvg, p_svg_png}

\* (width, height) of the images filtered: below, at and above the size bounds
\* and the thumbnail bound
ImageDims ==
    { <<2, 2>>, <<DEFAULT_MIN - 1, DEFAULT_MIN>>, <<DEFAULT_MIN, DEFAULT_MIN - 1>>,
      <<DEFAULT_MIN, DEFAULT_MIN>>, <<THUMBNAIL, THUMBNAIL>>,
      <<THUMBNAIL + 1, DEFAULT_MIN>>, <<DEFAULT_MAX, DEFAULT_MAX>>,
      <<DEFAULT_MAX + 1, DEFAULT_MIN>>, <<DEFAULT_MIN, DEFAULT_MAX + 1>> }

\* numbers of distinct RGB colours of an image
ColorCounts ==
    { 1, 2, DEFAULT_THRESHOLD, DEFAULT_THRESHOLD + 1, MAX_COLORS, MAX_COLORS + 1,
      MAX_COLORS + 44, 1000 }

\* The file at image_path: absent or not an image (Image.open raises), or an
\* image of a size and a number of distinct RGB colours whose pixel data
\* decodes or not (Image.open reads the header only; convert and thumbnail
\* read the pixels).
NotAnImage == [opens |-> FALSE, decodes |-> FALSE, size |-> <<0, 0>>, colors |-> 0]
ImageFiles ==
    {NotAnImage}
        \cup {f \in [opens : {TRUE}, decodes : BOOLEAN, size : ImageDims,
                      colors : ColorCounts] :
                 f.colors <= f.size[1] * f.size[2]}

Thresholds == {0, 1, DEFAULT_THRESHOLD, MAX_COLORS, MAX_COLORS + 1, MAX_COLORS + 44}
MinSizes == {<<DEFAULT_MIN, DEFAULT_MIN>>, <<2, 2>>}
MaxSizes == {<<DEFAULT_MAX, DEFAULT_MAX>>}

\* filter_minimal.py:27, 118   image_path.lower().endswith('.svg')
EndsWithSvgExact(path) == EndsWith(path, <<".">> \o s_svg)
IsSvgPath(path) == EndsWith(Lower(path), <<".">> \o s_svg)

\* filter_minimal.py:37: the distinct colours left after img.thumbnail((100,
\* 100)). An image that fits is not touched. A larger one is resampled: a flat
\* image stays flat, any other may gain colours (blended edges) or lose some,
\* within the pixels of the thumbnail.
ThumbnailColors(file) ==
    IF file.size[1] <= THUMBNAIL /\ file.size[2] <= THUMBNAIL
    THEN {file.colors}
    ELSE IF file.colors = 1 THEN {1}
    ELSE {n \in ColorCounts : n <= THUMBNAIL * THUMBNAIL}

\* filter_minimal.py:40-46   img.getcolors(maxcolors) is None above maxcolors
HistogramOrError(n, max_colors) == IF n > max_colors THEN ANALYSIS_FAILED ELSE n
Histogram(n, max_colors) == IF n > max_colors THEN max_colors + 1 ELSE n

\* filter_minimal.py:15-50   what count_colors(image_path) returns for a file
\* whose thumbnail has `thumb` distinct colours
count_colors(path, file, thumb, max_colors) ==
    IF IsSvgPath(path) THEN SVG_MARKER
    ELSE IF ~file.opens \/ ~file.decodes THEN ANALYSIS_FAILED
    ELSE Histogram(thumb, max_colors)

\* filter_minimal.py:53-87   how many (count, rgb) pairs analyze_dominant_colors
\* may return: none on an error, else the palette entries in use, at most n_colors
analyze_dominant_colors(file, n_colors) ==
    IF ~file.opens \/ ~file.decodes THEN {0}
    ELSE 1..Min(n_colors, file.colors)

\* the reasons is_minimal_style appends: the text and the numbers formatted
\* into it
Reason(text, numbers) == [text |-> text, numbers |-> numbers]

\* filter_minimal.py:129, 133, 141, 145
NeverTooSmall(size, minimum) == FALSE
TooSmall(size, minimum) == size[1] < minimum[1] \/ size[2] < minimum[2]
TooLarge(size, maximum) == size[1] > maximum[1] \/ size[2] > maximum[2]
CountFailed(color_count) == color_count < 0
NeverTooMany(color_count, threshold) == FALSE
TooMany(color_count, threshold) == color_count > threshold

\* filter_minimal.py:108-115
NewResult(path) ==
    [path |-> path, passed |-> FALSE, reasons |-> <<>>, color_count |-> 0,
     dominant_colors |-> 0, size |-> <<0, 0>>]

FiltIdle ==
    /\ qpc = "idle" /\ image_path = <<>> /\ imageFile = NotAnImage
    /\ max_color_threshold = DEFAULT_THRESHOLD
    /\ min_size = <<DEFAULT_MIN, DEFAULT_MIN>> /\ max_size = <<DEFAULT_MAX, DEFAULT_MAX>>
    /\ result = NewResult(<<>>) /\ passedRet = FALSE /\ thumbColors = 0
    /\ pixelOps = <<>>

FiltInit ==
    /\ qpc = "start"
    /\ image_path \in ImagePaths
    /\ imageFile \in ImageFiles
    /\ max_color_threshold \in Thresholds
    /\ min_size \in MinSizes
    /\ max_size \in MaxSizes
    /\ result = NewResult(image_path)
    /\ passedRet = FALSE
    /\ thumbColors = 0
    /\ pixelOps = <<>>

\* return False, result  /  return True, result
Return(res) ==
    /\ result' = res
    /\ passedRet' = res.passed
    /\ qpc' = "done"

\* filter_minimal.py:117-121
SvgShortcut ==
    /\ FiltFrame
    /\ qpc = "start"
    /\ IsSvgPath(image_path)
    /\ Return([result EXCEPT !.color_count = SVG_MARKER, !.passed = TRUE])
    /\ UNCHANGED <<image_path, imageFile, max_color_threshold, min_size, max_size,
                   thumbColors, pixelOps>>

\* filter_minimal.py:123-135 and 157-159: Image.open and the size checks
OpenAndCheckSize ==
    /\ FiltFrame
    /\ qpc = "start"
    /\ ~IsSvgPath(image_path)
    /\ pixelOps' = Append(pixelOps, "open")
    /\ IF ~imageFile.opens
       THEN Return([result EXCEPT !.reasons = Append(@, Reason("Error: ", <<>>))])
       ELSE LET sized == [result EXCEPT !.size = imageFile.size]
            IN  IF TooSmall(imageFile.size, min_size)
                THEN Return([sized EXCEPT
                               !.reasons = Append(@, Reason("Too small: ", imageFile.size))])
                ELSE IF TooLarge(imageFile.size, max_size)
                THEN Return([sized EXCEPT
                               !.reasons = Append(@, Reason("Too large: ", imageFile.size))])
                ELSE /\ result' = sized
                     /\ qpc' = "count"
                     /\ UNCHANGED passedRet
    /\ UNCHANGED <<image_path, imageFile, max_color_threshold, min_size, max_size,
                   thumbColors>>

\* filter_minimal.py:137-147: count_colors(image_path) and the two tests on it
CheckColorCount ==
    /\ FiltFrame
    /\ qpc = "count"
    /\ pixelOps' = Append(pixelOps, "count_colors")
    /\ \E thumb \in ThumbnailColors(imageFile) :
         LET color_count == count_colors(image_path, imageFile, thumb, MAX_COLORS)
             counted == [result EXCEPT !.color_count = color_count]
         IN  /\ thumbColors' = IF imageFile.decodes THEN thumb ELSE 0
             /\ IF CountFailed(color_count)
                THEN Return([counted EXCEPT
                               !.reasons = Append(@, Reason("Failed to analyze colors", <<>>))])
                ELSE IF TooMany(color_count, max_color_threshold)
                THEN Return([counted EXCEPT
                               !.reasons = Append(@, Reason("Too many colors: ", <<color_count>>))])
                ELSE /\ result' = counted
                     /\ qpc' = "dominant"
                     /\ UNCHANGED passedRet
    /\ UNCHANGED <<image_path, imageFile, max_color_threshold, min_size, max_size>>

\* filter_minimal.py:149-155
Accept ==
    /\ FiltFrame
    /\ qpc = "dominant"
    /\ pixelOps' = Append(pixelOps, "analyze_dominant_colors")
    /\ \E dominant \in analyze_dominant_colors(imageFile, N_DOMINANT) :
         Return([result EXCEPT !.dominant_colors = dominant, !.passed = TRUE])
    /\ UNCHANGED <<image_path, imageFile, max_color_threshold, min_size, max_size,
                   thumbColors>>

FiltNext == SvgShortcut \/ OpenAndCheckSize \/ CheckColorCount \/ Accept


(***************************************************************************)
(* convert_svg_to_png and its backends (svg_to_png.py:15-158)              *)
(***************************************************************************)
\* svg_to_png.py:125 and any other string a caller may pass
Methods == {"auto", "cairosvg", "inkscape", "imagemagick", "other"}
Backends == {"cairosvg", "inkscape", "imagemagick"}

NoTarget == [exists |-> FALSE, content |-> 0]
\* a PNG at png_path; content 0 is a file that was there before any call,
\* content n > 0 the output written by call n, content -n what a failed
\* call n left behind
Target(content) == [exists |-> TRUE, content |-> content]

\* svg_to_png.py:134   os.path.exists(png_path)
NeverExists(file) == FALSE
TargetExists(file) == file.exists

\* svg_to_png.py:138-147: the backend auto mode resolves to, and the probes
\* it makes on the way
AutoMethod(have) ==
    IF "cairosvg" \in have THEN "cairosvg"
    ELSE IF "inkscape" \in have THEN "inkscape"
    ELSE "imagemagick"
AutoProbes(have) ==
    IF "cairosvg" \in have THEN <<"import cairosvg">>
    ELSE <<"import cairosvg", "inkscape --version">>

\* svg_to_png.py:24-109: what a run of backend `m` by call `n` may do to the
\* target and return. A backend that is not installed raises inside the
\* try and yields False; an installed one succeeds and writes the PNG, or
\* fails (exception, non-zero exit, timeout) leaving nothing or a partial file.
BackendOutcomes(m, have, file, n) ==
    IF m \notin have
    THEN {[ret |-> FALSE, file |-> file]}
    ELSE {[ret |-> TRUE, file |-> Target(n)],
          [ret |-> FALSE, file |-> file],
          [ret |-> FALSE, file |-> Target(0 - n)]}

RastIdle ==
    /\ rpc = "idle" /\ method = "auto" /\ installed = {} /\ outDirExists = FALSE
    /\ targetFile = NoTarget /\ targetAtCall = NoTarget /\ calls = 0
    /\ backendLog = <<>> /\ convRet = FALSE

RastInit ==
    /\ rpc = "idle"
    /\ method = "auto"
    /\ installed \in SUBSET Backends
    /\ targetFile \in {NoTarget, Target(0)}
    /\ outDirExists \in {TRUE, targetFile.exists}
    /\ targetAtCall = targetFile
    /\ calls = 0
    /\ backendLog = <<>>
    /\ convRet = FALSE

\* svg_to_png.py:112-131: a call of convert_svg_to_png(svg_path, png_path,
\* size, method); Path(png_path).parent.mkdir(parents=True, exist_ok=True)
CallConvert ==
    /\ RastFrame
    /\ rpc \in {"idle", "done"}
    /\ calls < MaxCalls
    /\ \E m \in Methods : method' = m
    /\ calls' = calls + 1
    /\ outDirExists' = TRUE
    /\ targetAtCall' = targetFile
    /\ backendLog' = <<>>
    /\ rpc' = "exists?"
    /\ UNCHANGED <<installed, targetFile, convRet>>

\* svg_to_png.py:134-135
SkipExisting ==
    /\ RastFrame
    /\ rpc = "exists?"
    /\ IF TargetExists(targetFile)
       THEN /\ convRet' = TRUE
            /\ rpc' = "done"
       ELSE /\ rpc' = "select"
            /\ UNCHANGED convRet
    /\ UNCHANGED <<method, installed, outDirExists, targetFile, targetAtCall, calls,
                   backendLog>>

\* svg_to_png.py:138-147
SelectMethod ==
    /\ RastFrame
    /\ rpc = "select"
    /\ IF method = "auto"
       THEN /\ method' = AutoMethod(installed)
            /\ backendLog' = backendLog \o AutoProbes(installed)
       ELSE UNCHANGED <<method, backendLog>>
    /\ rpc' = "convert"
    /\ UNCHANGED <<installed, outDirExists, targetFile, targetAtCall, calls, convRet>>

\* svg_to_png.py:150-155
RunBackend ==
    /\ RastFrame
    /\ rpc = "convert"
    /\ method \in Backends
    /\ backendLog' = Append(backendLog, method)
    /\ \E out \in BackendOutcomes(method, installed, targetFile, calls) :
         /\ targetFile' = out.file
         /\ convRet' = out.ret
    /\ rpc' = "done"
    /\ UNCHANGED <<method, installed, outDirExists, targetAtCall, calls>>

\* svg_to_png.py:156-158
UnknownMethod ==
    /\ RastFrame
    /\ rpc = "convert"
    /\ method \notin Backends
    /\ convRet' = FALSE
    /\ rpc' = "done"
    /\ UNCHANGED <<method, installed, outDirExists, targetFile, targetAtCall, calls,
                   backendLog>>

RastNext == CallConvert \/ SkipExisting \/ SelectMethod \/ RunBackend \/ UnknownMethod

(***************************************************************************)
(* download_repo_logos, save_logo (download_logo.py:162-217)               *)
(***************************************************************************)
\* the repository records handed to download_repo_logos
RepoItems == {[owner |-> "a", name |-> "x"], [owner |-> "b", name |-> "y"]}

\* what find_logo_in_repo(owner, name) returns for a repository: (None, None)
\* or the bytes of a logo and its extension
FoundLogos ==
    {NoneResult,
     [content |-> Bytes(CandidatePath(<<>>, s_logo, s_png), 1), ext |-> s_png],
     [content |-> Bytes(CandidatePath(<<>>, s_logo, s_svg), 1), ext |-> s_svg]}

\* download_logo.py:201-202   os.path.join(output_dir, f"{owner}_{name}.{ext}")
OutputPath(repo, ext) == <<repo.owner, repo.name, ext>>

OutputPaths == {OutputPath(r, e) : r \in RepoItems, e \in {s_png, s_svg}}

\* a file of output_dir is "none" (absent), "old" (left by an earlier run),
\* "partial" (cut short by a failed or interrupted write) or "written"

\* download_logo.py:199   if content and ext
HasLogo(res) == Truthy(res.content) /\ res.ext # <<>>

\* download_logo.py:205   os.path.exists(output_path)
OutputNeverExists(files, path) == FALSE
OutputExists(files, path) == files[path] # "none"

\* download_logo.py:206, 213   {**repo, "image_path": output_path, "logo_ext": ext}
ResultRecord(repo, ext) ==
    [owner |-> repo.owner, name |-> repo.name,
     image_path |-> OutputPath(repo, ext), logo_ext |-> ext]

\* download_logo.py:162-171   save_logo: the file is written and True
\* returned, or an exception is caught and False returned, before the file
\* was created or after
SaveOutcomes(files, path) ==
    {[success |-> TRUE,  files |-> [files EXCEPT ![path] = "written"]],
     [success |-> FALSE, files |-> files],
     [success |-> FALSE, files |-> [files EXCEPT ![path] = "partial"]]}

DlIdle ==
    /\ dpc = "idle" /\ repos = <<>> /\ upstream = <<>> /\ disk = <<>>
    /\ diskAtRun = <<>> /\ results = <<>> /\ di = 1 /\ found = NoneResult
    /\ run = 0 /\ saveFailed = FALSE /\ netLog = <<>>

DlInit ==
    /\ dpc = "find"
    /\ repos \in SeqUpTo(RepoItems, MaxItems)
    /\ upstream \in [RepoItems -> FoundLogos]
    /\ disk \in [OutputPaths -> {"none", "old"}]
    /\ diskAtRun = disk
    /\ results = <<>>
    /\ di = 1
    /\ found = NoneResult
    /\ run = 1
    /\ saveFailed = FALSE
    /\ netLog = <<>>

\* download_logo.py:192-197   content, ext = find_logo_in_repo(owner, name)
DlFind ==
    /\ DlFrame
    /\ dpc = "find"
    /\ di <= Len(repos)
    /\ found' = upstream[repos[di]]
    /\ netLog' = Append(netLog, "find")
    /\ dpc' = "decide"
    /\ UNCHANGED <<repos, upstream, disk, diskAtRun, results, di, run, saveFailed>>

\* download_logo.py:199 false: nothing to save
DlAbsent ==
    /\ DlFrame
    /\ dpc = "decide"
    /\ ~HasLogo(found)
    /\ dpc' = "sleep"
    /\ UNCHANGED <<repos, upstream, disk, diskAtRun, results, di, found, run,
                   saveFailed, netLog>>

\* download_logo.py:205-207: the output file exists; append and `continue`
DlSkipExisting ==
    /\ DlFrame
    /\ dpc = "decide"
    /\ HasLogo(found)
    /\ OutputExists(disk, OutputPath(repos[di], found.ext))
    /\ results' = Append(results, ResultRecord(repos[di], found.ext))
    /\ di' = di + 1
    /\ dpc' = "find"
    /\ UNCHANGED <<repos, upstream, disk, diskAtRun, found, run, saveFailed, netLog>>

\* download_logo.py:210-213   success = save_logo(content, output_path)
DlSave ==
    /\ DlFrame
    /\ dpc = "decide"
    /\ HasLogo(found)
    /\ ~OutputExists(disk, OutputPath(repos[di], found.ext))
    /\ \E out \in SaveOutcomes(disk, OutputPath(repos[di], found.ext)) :
         /\ disk' = out.files
         /\ saveFailed' = (saveFailed \/ ~out.success)
         /\ results' = IF out.success
                       THEN Append(results, ResultRecord(repos[di], found.ext))
                       ELSE results
    /\ dpc' = "sleep"
    /\ UNCHANGED <<repos, upstream, diskAtRun, di, found, run, netLog>>

\* download_logo.py:215   time.sleep(delay)
DlSleep ==
    /\ DlFrame
    /\ dpc = "sleep"
    /\ netLog' = Append(netLog, "sleep")
    /\ di' = di + 1
    /\ dpc' = "find"
    /\ UNCHANGED <<repos, upstream, disk, diskAtRun, results, found, run, saveFailed>>

\* download_logo.py:217   return results
DlReturn ==
    /\ DlFrame
    /\ dpc = "find"
    /\ di > Len(repos)
    /\ dpc' = "done"
    /\ UNCHANGED <<repos, upstream, disk, diskAtRun, results, di, found, run,
                   saveFailed, netLog>>

\* the first run is killed inside the loop (nothing in download_logo.py:192-215
\* catches it), leaving the file being written cut short if it was killed
\* inside save_logo; the program is then run again on the same list
DlInterruptAndRerun ==
    /\ DlFrame
    /\ run = 1
    /\ dpc \in {"find", "decide", "sleep"}
    /\ \E files \in {disk} \cup
                    (IF dpc = "decide" /\ HasLogo(found)
                        /\ ~OutputExists(disk, OutputPath(repos[di], found.ext))
                     THEN {[disk EXCEPT ![OutputPath(repos[di], found.ext)] = "partial"]}
                     ELSE {}) :
         /\ disk' = files
         /\ diskAtRun' = files
    /\ run' = 2
    /\ results' = <<>>
    /\ di' = 1
    /\ found' = NoneResult
    /\ netLog' = <<>>
    /\ dpc' = "find"
    /\ UNCHANGED <<repos, upstream, saveFailed>>

DlNext ==
    DlFind \/ DlAbsent \/ DlSkipExisting \/ DlSave \/ DlSleep \/ DlReturn
        \/ DlInterruptAndRerun

(***************************************************************************)
(* filter_minimal_logos (filter_minimal.py:162-218)                        *)
(***************************************************************************)
\* filter_minimal.py:90-159 as one call: the results is_minimal_style may
\* return for the file at `path`; it raises nothing, the code after the SVG
\* shortcut being inside  try ... except Exception
is_minimal_style(path, file, threshold, minimum, maximum) ==
    IF IsSvgPath(path)
    THEN {[NewResult(path) EXCEPT !.color_count = SVG_MARKER, !.passed = TRUE]}
    ELSE IF ~file.opens
    THEN {[NewResult(path) EXCEPT !.reasons = <<Reason("Error: ", <<>>)>>]}
    ELSE LET sized == [NewResult(path) EXCEPT !.size = file.size]
         IN  IF TooSmall(file.size, minimum)
             THEN {[sized EXCEPT !.reasons = <<Reason("Too small: ", file.size)>>]}
             ELSE IF TooLarge(file.size, maximum)
             THEN {[sized EXCEPT !.reasons = <<Reason("Too large: ", file.size)>>]}
             ELSE UNION {
                 LET color_count == count_colors(path, file, thumb, MAX_COLORS)
                     counted == [sized EXCEPT !.color_count = color_count]
                 IN  IF CountFailed(color_count)
                     THEN {[counted EXCEPT
                              !.reasons = <<Reason("Failed to analyze colors", <<>>)>>]}
                     ELSE IF TooMany(color_count, threshold)
                     THEN {[counted EXCEPT
                              !.reasons = <<Reason("Too many colors: ", <<color_count>>)>>]}
                     ELSE {[counted EXCEPT !.dominant_colors = d, !.passed = TRUE] :
                              d \in analyze_dominant_colors(file, N_DOMINANT)}
                 : thumb \in ThumbnailColors(file)}

\* an entry of metadata.json without the "image_path" key
NoImagePath == <<>>

\* the entries of metadata.json: the image_path they carry and the file (if
\* any) at that path
MetadataEntries ==
    {[image_path |-> NoImagePath, exists |-> FALSE, file |-> NotAnImage],
     [image_path |-> p_a_png, exists |-> FALSE, file |-> NotAnImage],
     [image_path |-> p_a_SVG, exists |-> TRUE, file |-> NotAnImage],
     [image_path |-> p_a_png, exists |-> TRUE, file |-> NotAnImage],
     [image_path |-> p_a_png, exists |-> TRUE,
      file |-> [opens |-> TRUE, decodes |-> FALSE, size |-> <<DEFAULT_MIN, DEFAULT_MIN>>, colors |-> 2]],
     [image_path |-> p_a_PNG, exists |-> TRUE,
      file |-> [opens |-> TRUE, decodes |-> TRUE, size |-> <<2, 2>>, colors |-> 1]],
     [image_path |-> p_svg_png, exists |-> TRUE,
      file |-> [opens |-> TRUE, decodes |-> TRUE, size |-> <<DEFAULT_MIN, DEFAULT_MIN>>, colors |-> 2]],
     [image_path |-> p_a_png, exists |-> TRUE,
      file |-> [opens |-> TRUE, decodes |-> TRUE, size |-> <<DEFAULT_MIN, DEFAULT_MIN>>, colors |-> MAX_COLORS + 44]]}

\* filter_minimal.py:190   if not image_path or not os.path.exists(image_path)
Skipped(repo) == repo.image_path = NoImagePath \/ ~repo.exists

\* the ways filter_minimal_logos ends other than by returning
NoError == "none"
CopyError == "shutil.copy2 raised"
StateFileError == "writing a JSON state file raised"
ZeroDivisionError == "ZeroDivisionError"

BfIdle ==
    /\ bpc = "idle" /\ metadata = <<>> /\ batch_max_colors = DEFAULT_THRESHOLD /\ bi = 1
    /\ filtered = <<>> /\ analysis_results = <<>> /\ copied = {}
    /\ stateFiles = "absent" /\ raised = NoError

BfInit ==
    /\ bpc = "loop"
    /\ metadata \in SeqUpTo(MetadataEntries, MaxMetadata)
    /\ batch_max_colors = DEFAULT_THRESHOLD
    /\ bi = 1
    /\ filtered = <<>>
    /\ analysis_results = <<>>
    /\ copied = {}
    /\ stateFiles = "absent"
    /\ raised = NoError

\* filter_minimal.py:187-191: an entry without a usable image is passed over
BfSkip ==
    /\ BfFrame
    /\ bpc = "loop"
    /\ bi <= Len(metadata)
    /\ Skipped(metadata[bi])
    /\ bi' = bi + 1
    /\ UNCHANGED <<bpc, metadata, batch_max_colors, filtered, analysis_results, copied,
                   stateFiles, raised>>

\* filter_minimal.py:193-196: the image is analysed and did not pass
BfReject ==
    /\ BfFrame
    /\ bpc = "loop"
    /\ bi <= Len(metadata)
    /\ ~Skipped(metadata[bi])
    /\ \E analysis \in is_minimal_style(metadata[bi].image_path, metadata[bi].file,
                                        batch_max_colors, <<DEFAULT_MIN, DEFAULT_MIN>>,
                                        <<DEFAULT_MAX, DEFAULT_MAX>>) :
         /\ ~analysis.passed
         /\ analysis_results' = Append(analysis_results, analysis)
    /\ bi' = bi + 1
    /\ UNCHANGED <<bpc, metadata, batch_max_colors, filtered, copied, stateFiles, raised>>

\* filter_minimal.py:193-206: the image passed and shutil.copy2 copied it
BfKeep ==
    /\ BfFrame
    /\ bpc = "loop"
    /\ bi <= Len(metadata)
    /\ ~Skipped(metadata[bi])
    /\ \E analysis \in is_minimal_style(metadata[bi].image_path, metadata[bi].file,
                                        batch_max_colors, <<DEFAULT_MIN, DEFAULT_MIN>>,
                                        <<DEFAULT_MAX, DEFAULT_MAX>>) :
         /\ analysis.passed
         /\ analysis_results' = Append(analysis_results, analysis)
         /\ filtered' = Append(filtered, [image_path |-> metadata[bi].image_path,
                                          filtered_path |-> metadata[bi].image_path,
                                          color_count |-> analysis.color_count])
    /\ copied' = copied \cup {metadata[bi].image_path}
    /\ bi' = bi + 1
    /\ UNCHANGED <<bpc, metadata, batch_max_colors, stateFiles, raised>>

\* filter_minimal.py:202: shutil.copy2 is outside any try; an OSError it
\* raises (unreadable source, source is a directory, full disk) leaves the
\* function
BfCopyRaises ==
    /\ BfFrame
    /\ bpc = "loop"
    /\ bi <= Len(metadata)
    /\ ~Skipped(metadata[bi])
    /\ \E analysis \in is_minimal_style(metadata[bi].image_path, metadata[bi].file,
                                        batch_max_colors, <<DEFAULT_MIN, DEFAULT_MIN>>,
                                        <<DEFAULT_MAX, DEFAULT_MAX>>) :
         /\ analysis.passed
         /\ analysis_results' = Append(analysis_results, analysis)
    /\ raised' = CopyError
    /\ bpc' = "raised"
    /\ UNCHANGED <<metadata, batch_max_colors, bi, filtered, copied, stateFiles>>

\* filter_minimal.py:208-213: the two JSON state files are written, or
\* writing one of them raises
BfSaveState ==
    /\ BfFrame
    /\ bpc = "loop"
    /\ bi > Len(metadata)
    /\ \/ /\ stateFiles' = "written"
          /\ bpc' = "report"
          /\ UNCHANGED raised
       \/ /\ stateFiles' = "partial"
          /\ raised' = StateFileError
          /\ bpc' = "raised"
    /\ UNCHANGED <<metadata, batch_max_colors, bi, filtered, analysis_results, copied>>

\* filter_minimal.py:215-218: the two prints, the second dividing by
\* len(repos), then  return filtered
BfReport ==
    /\ BfFrame
    /\ bpc = "report"
    /\ IF Len(metadata) = 0
       THEN /\ raised' = ZeroDivisionError
            /\ bpc' = "raised"
       ELSE /\ bpc' = "returned"
            /\ UNCHANGED raised
    /\ UNCHANGED <<metadata, batch_max_colors, bi, filtered, analysis_results, copied,
                   stateFiles>>

BfNext == BfSkip \/ BfReject \/ BfKeep \/ BfCopyRaises \/ BfSaveState \/ BfReport

(***************************************************************************)
(* batch_convert (svg_to_png.py:161-213)                                   *)
(***************************************************************************)
\* svg_to_png.py:112-158 as one call by batch_convert: what
\* convert_svg_to_png(svg, png, size, m) may return for the n-th file, what
\* it leaves at png_path, and the backend it ran (if any)
NoBackend == "none"
convert_svg_to_png(m, have, file, n) ==
    IF TargetExists(file)
    THEN {[ret |-> TRUE, file |-> file, ran |-> NoBackend]}
    ELSE LET resolved == IF m = "auto" THEN AutoMethod(have) ELSE m
         IN  IF resolved \in Backends
             THEN {[ret |-> out.ret, file |-> out.file, ran |-> resolved] :
                      out \in BackendOutcomes(resolved, have, file, n)}
             ELSE {[ret |-> FALSE, file |-> file, ran |-> NoBackend]}

\* svg_to_png.py:209-210   if convert_svg_to_png(...): success_count += 1
CountEveryFile(count, ret) == count + 1
CountSuccess(count, ret) == IF ret THEN count + 1 ELSE count

BcIdle ==
    /\ kpc = "idle" /\ svg_files = <<>> /\ batchMethod = "auto" /\ methodArg = "auto"
    /\ converters = {} /\ ki = 1 /\ success_count = 0 /\ callLog = <<>> /\ probeLog = <<>>
    /\ batchRet = -1

\* svg_to_png.py:180: the *.svg files of input_dir, each with the state of its
\* output path
BcInit ==
    /\ kpc = "start"
    /\ svg_files \in SeqUpTo({NoTarget, Target(0)}, MaxFiles)
    /\ methodArg \in Methods
    /\ batchMethod = methodArg
    /\ converters \in SUBSET Backends
    /\ ki = 1
    /\ success_count = 0
    /\ callLog = <<>>
    /\ probeLog = <<>>
    /\ batchRet = -1

\* svg_to_png.py:183-185
BcNoFiles ==
    /\ BcFrame
    /\ kpc = "start"
    /\ svg_files = <<>>
    /\ batchRet' = 0
    /\ kpc' = "done"
    /\ UNCHANGED <<svg_files, batchMethod, methodArg, converters, ki, success_count, callLog,
                   probeLog>>

\* svg_to_png.py:187-200: the method is resolved once, before the loop
BcSelectMethod ==
    /\ BcFrame
    /\ kpc = "start"
    /\ svg_files # <<>>
    /\ IF batchMethod = "auto"
       THEN /\ batchMethod' = AutoMethod(converters)
            /\ probeLog' = probeLog \o AutoProbes(converters)
       ELSE UNCHANGED <<batchMethod, probeLog>>
    /\ kpc' = "loop"
    /\ UNCHANGED <<svg_files, methodArg, converters, ki, success_count, callLog, batchRet>>

\* svg_to_png.py:206-210, one iteration of  for svg_file in svg_files
BcConvertFile ==
    /\ BcFrame
    /\ kpc = "loop"
    /\ ki <= Len(svg_files)
    /\ \E out \in convert_svg_to_png(batchMethod, converters, svg_files[ki], ki) :
         /\ svg_files' = [svg_files EXCEPT ![ki] = out.file]
         /\ callLog' = Append(callLog, [method |-> batchMethod, ret |-> out.ret,
                                        ran |-> out.ran])
         /\ success_count' = CountSuccess(success_count, out.ret)
    /\ probeLog' = probeLog \o
                     (IF batchMethod = "auto" /\ ~TargetExists(svg_files[ki])
                      THEN AutoProbes(converters) ELSE <<>>)
    /\ ki' = ki + 1
    /\ UNCHANGED <<kpc, batchMethod, methodArg, converters, batchRet>>

\* svg_to_png.py:212-213   return success_count
BcReturn ==
    /\ BcFrame
    /\ kpc = "loop"
    /\ ki > Len(svg_files)
    /\ batchRet' = success_count
    /\ kpc' = "done"
    /\ UNCHANGED <<svg_files, batchMethod, methodArg, converters, ki, success_count, callLog,
                   probeLog>>

BcNext == BcNoFiles \/ BcSelectMethod \/ BcConvertFile \/ BcReturn

(***************************************************************************)
(* fetch_starred_repos (fetch_starred.py:13-71)                            *)
(***************************************************************************)
\* the upstream ranking is 1, 2, ..., ranked; a search request for page `p`
\* with `n` results per page returns the ranks (p-1)*n+1 .. p*n that exist
SearchPage(ranked, p, n) ==
    [k \in 1..(IF (p - 1) * n >= ranked THEN 0 ELSE Min(n, ranked - (p - 1) * n))
        |-> (p - 1) * n + k]

\* fetch_starred.py:25   pages = (limit + per_page - 1) // per_page
Pages(lim, pp) == (lim + pp - 1) \div pp

\* fetch_starred.py:39   "per_page": min(per_page, limit - len(repos))
PerPageParam(pp, lim, have_n) == Min(pp, lim - have_n)

\* fetch_starred.py:71   repos[:limit]
Prefix(s, n) == SubSeq(s, 1, Min(n, Len(s)))

FsIdle ==
    /\ spc = "idle" /\ limit = 1 /\ per_page = 1 /\ total = 0 /\ page = 1
    /\ fetched = <<>> /\ requestLog = <<>> /\ anyFailed = FALSE /\ starredRet = <<>>

FsInit ==
    /\ spc = "loop"
    /\ limit \in 1..MaxLimit
    /\ per_page \in 1..MaxPerPage
    /\ total \in 0..MaxTotal
    /\ page = 1
    /\ fetched = <<>>
    /\ requestLog = <<>>
    /\ anyFailed = FALSE
    /\ starredRet = <<>>

\* fetch_starred.py:33-61, 68-69: a page request that succeeds; the loop
\* stops once `limit` repositories are held
FsFetchPage ==
    /\ FsFrame
    /\ spc = "loop"
    /\ page <= Pages(limit, per_page)
    /\ LET n == PerPageParam(per_page, limit, Len(fetched))
           got == fetched \o SearchPage(total, page, n)
       IN  /\ requestLog' = Append(requestLog, [page |-> page, per_page |-> n])
           /\ fetched' = got
           /\ spc' = IF Len(got) >= limit THEN "return" ELSE "loop"
    /\ page' = page + 1
    /\ UNCHANGED <<limit, per_page, total, anyFailed, starredRet>>

\* fetch_starred.py:63-66: the request raised; the page is given up
FsPageFails ==
    /\ FsFrame
    /\ spc = "loop"
    /\ page <= Pages(limit, per_page)
    /\ requestLog' = Append(requestLog,
                            [page |-> page,
                             per_page |-> PerPageParam(per_page, limit, Len(fetched))])
    /\ anyFailed' = TRUE
    /\ page' = page + 1
    /\ UNCHANGED <<spc, limit, per_page, total, fetched, starredRet>>

\* fetch_starred.py:33 exhausted
FsLoopEnd ==
    /\ FsFrame
    /\ spc = "loop"
    /\ page > Pages(limit, per_page)
    /\ spc' = "return"
    /\ UNCHANGED <<limit, per_page, total, page, fetched, requestLog, anyFailed,
                   starredRet>>

\* fetch_starred.py:71   return repos[:limit]
FsReturn ==
    /\ FsFrame
    /\ spc = "return"
    /\ starredRet' = Prefix(fetched, limit)
    /\ spc' = "done"
    /\ UNCHANGED <<limit, per_page, total, page, fetched, requestLog, anyFailed>>

FsNext == FsFetchPage \/ FsPageFails \/ FsLoopEnd \/ FsReturn


(***************************************************************************)
(* The specifications: one per function, the others at rest                *)
(***************************************************************************)
MergeIdle ==
    /\ mpc = "idle" /\ starredFile = NoFile /\ trendingFile = NoFile
    /\ all_repos = <<>> /\ seen = {} /\ unique_repos = <<>> /\ mi = 1
    /\ mergedFile = NoFile /\ mergeReport = <<>>

MergeNext == ReadStarred \/ ReadTrending \/ DedupStep \/ SaveMerged

InitMerge ==
    MergeInit /\ LocIdle /\ FiltIdle /\ RastIdle /\ DlIdle /\ BfIdle /\ BcIdle /\ FsIdle
SpecMerge == InitMerge /\ [][MergeNext]_vars

InitLocator ==
    LocInit /\ MergeIdle /\ FiltIdle /\ RastIdle /\ DlIdle /\ BfIdle /\ BcIdle /\ FsIdle
SpecLocator == InitLocator /\ [][LocNext]_vars

InitFilter ==
    FiltInit /\ MergeIdle /\ LocIdle /\ RastIdle /\ DlIdle /\ BfIdle /\ BcIdle /\ FsIdle
SpecFilter == InitFilter /\ [][FiltNext]_vars

InitRaster ==
    RastInit /\ MergeIdle /\ LocIdle /\ FiltIdle /\ DlIdle /\ BfIdle /\ BcIdle /\ FsIdle
SpecRaster == InitRaster /\ [][RastNext]_vars

InitDownload ==
    DlInit /\ MergeIdle /\ LocIdle /\ FiltIdle /\ RastIdle /\ BfIdle /\ BcIdle /\ FsIdle
SpecDownload == InitDownload /\ [][DlNext]_vars

InitFilterBatch ==
    BfInit /\ MergeIdle /\ LocIdle /\ FiltIdle /\ RastIdle /\ DlIdle /\ BcIdle /\ FsIdle
SpecFilterBatch == InitFilterBatch /\ [][BfNext]_vars

InitConvertBatch ==
    BcInit /\ MergeIdle /\ LocIdle /\ FiltIdle /\ RastIdle /\ DlIdle /\ BfIdle /\ FsIdle
SpecConvertBatch == InitConvertBatch /\ [][BcNext]_vars

InitFetchStarred ==
    FsInit /\ MergeIdle /\ LocIdle /\ FiltIdle /\ RastIdle /\ DlIdle /\ BfIdle /\ BcIdle
SpecFetchStarred == InitFetchStarred /\ [][FsNext]_vars


\* the value merge_repos returns, once it has returned
MergeReturned == mpc = "done"

\* the two input lists as the caller supplied them, one after the other, each
\* entry named by the list it is in and its position there
InputConcat ==
    [k \in 1..(Len(starredFile.repos) + Len(trendingFile.repos)) |->
        IF k <= Len(starredFile.repos)
        THEN [full_name |-> starredFile.repos[k].full_name, obj |-> <<"starred", k>>]
        ELSE LET j == k - Len(starredFile.repos)
             IN  [full_name |-> trendingFile.repos[j].full_name,
                  obj |-> <<"trending", j>>]]

(* C1: the list returned by merge_repos holds each full_name at most once  *)
(* and is no longer than the two input lists together.                     *)
C1_UniqueAndBounded ==
    MergeReturned =>
        /\ \A p, q \in 1..Len(unique_repos) :
               unique_repos[p].full_name = unique_repos[q].full_name => p = q
        /\ Len(unique_repos) <= Len(starredFile.repos) + Len(trendingFile.repos)
        /\ mergedFile.repos = unique_repos

\* a merge has returned that dropped a record, with a full_name of the starred
\* list coming again in the trending list
C1_Witness ==
    /\ MergeReturned
    /\ Len(unique_repos) < Len(all_repos)
    /\ \E p \in 1..Len(starredFile.repos), q \in 1..Len(trendingFile.repos) :
           starredFile.repos[p].full_name = trendingFile.repos[q].full_name

\* positions of the concatenated input whose full_name does not occur earlier
FirstOccurrences ==
    {k \in 1..Len(InputConcat) :
        \A j \in 1..(k - 1) : InputConcat[j].full_name # InputConcat[k].full_name}

(* C2: merge_repos returns the first-occurrence deduplication of starred   *)
(* followed by trending: the n-th returned record is the record at the     *)
(* n-th smallest position of the concatenation whose full_name has not     *)
(* occurred before it.                                                     *)
C2_FirstOccurrenceOrder ==
    MergeReturned =>
        /\ Len(unique_repos) = Cardinality(FirstOccurrences)
        /\ \A n \in 1..Len(unique_repos) :
               \E k \in FirstOccurrences :
                   /\ Cardinality({j \in FirstOccurrences : j <= k}) = n
                   /\ unique_repos[n].obj = InputConcat[k].obj
                   /\ unique_repos[n].full_name = InputConcat[k].full_name

\* a returned merge that kept a starred record and a trending record and
\* dropped a later duplicate
C2_Witness ==
    /\ MergeReturned
    /\ \E p, q \in 1..Len(unique_repos) :
           /\ p < q
           /\ unique_repos[p].obj[1] = "starred"
           /\ unique_repos[q].obj[1] = "trending"
    /\ Cardinality(FirstOccurrences) < Len(InputConcat)


\* the latest path passed to get_file_from_repo
LastFetchedPath == fetchLog[Len(fetchLog)]

\* the get_file_from_repo calls made after the loop over LOGO_PATHS
ListFetches == SubSeq(fetchLog, Len(LOGO_PATHS) + 1, Len(fetchLog))

(* C3 as stated: the function returns on the first candidate whose fetch   *)
(* succeeds (get_file_from_repo returns the file's bytes, not None).       *)
C3_ReturnsOnFirstFetchedCandidate ==
    (listLog = <<>> /\ fetchLog # <<>> /\ ~lastFetch.isNone)
        => (fpc = "done" /\ findResult.content = lastFetch)

(* C3, amended: find_logo_in_repo probes LOGO_PATHS in the order written   *)
(* and returns on the first candidate whose fetch yields non-empty bytes,  *)
(* with that content and the candidate's lower-cased extension; no later   *)
(* candidate is probed and no directory listing is requested. A candidate  *)
(* whose file is empty counts as a miss.                                   *)
C3_ReturnsOnFirstNonEmptyCandidate ==
    /\ \A k \in 1..Len(fetchLog) :
           k <= Len(LOGO_PATHS) => fetchLog[k] = LOGO_PATHS[k]
    /\ fpc # "done" => truthyFetches = 0
    /\ (listLog = <<>> /\ fetchLog # <<>> /\ ~lastFetch.isNone /\ lastFetch.size > 0)
           => /\ fpc = "done"
              /\ truthyFetches = 1
              /\ findResult.content = lastFetch
              /\ lastFetch.from = LastFetchedPath
              /\ findResult.ext = Lower(LastDotPart(LastFetchedPath))
              /\ findResult.ext \in ACCEPTED_EXTS
    /\ (fpc = "done" /\ ~findResult.content.isNone /\ Len(fetchLog) <= Len(LOGO_PATHS))
           => /\ listLog = <<>>
              /\ findResult.content.size > 0
              /\ findResult.content.from = LOGO_PATHS[Len(fetchLog)]
    /\ listLog # <<>> => Len(fetchLog) >= Len(LOGO_PATHS)

\* the function returned the third candidate after one candidate's fetch
\* failed and another's returned an empty file
C3_Witness ==
    /\ fpc = "done"
    /\ listLog = <<>>
    /\ Len(fetchLog) = 3
    /\ emptyFetched
    /\ findResult.content = Bytes(LOGO_PATHS[3], 1)

\* download_logo.py:98-107: the path the fallback picks from the listing
Selected(files) ==
    IF \E k \in 1..Len(files) : IsNamed(files[k])
    THEN files[CHOOSE k \in 1..Len(files) :
                   IsNamed(files[k]) /\ \A j \in 1..(k - 1) : ~IsNamed(files[j])]
    ELSE files[1]

FallbackPlan == SelectSeq(logo_files, IsNamed) \o <<logo_files[1]>>

VectorPaths == {p_a_svg, p_a_SVG, p_dot_Svg}
RasterPaths == ImagePaths \ VectorPaths

FilterReturned == qpc = "done"

\* the real image's width and height are within [min_size, max_size]
SizeWithinBounds ==
    /\ min_size[1] <= imageFile.size[1] /\ imageFile.size[1] <= max_size[1]
    /\ min_size[2] <= imageFile.size[2] /\ imageFile.size[2] <= max_size[2]

\* a readable raster image within the size bounds was filtered
RasterWithinBounds ==
    /\ FilterReturned
    /\ image_path \in RasterPaths
    /\ imageFile.opens /\ imageFile.decodes
    /\ SizeWithinBounds

\* the image is small enough for img.thumbnail((100, 100)) to leave it as it is
FitsThumbnail == imageFile.size[1] <= THUMBNAIL /\ imageFile.size[2] <= THUMBNAIL

(* C5: a FilterResult with passed = true is for a .svg path, or has its    *)
(* size within [min_size, max_size], a color_count >= 0 (the analysis      *)
(* succeeded) and a color_count <= max_color_threshold.                    *)
C5_PassedImpliesVectorOrWithinLimits ==
    (FilterReturned /\ result.passed) =>
        \/ image_path \in VectorPaths
        \/ /\ result.size = imageFile.size
           /\ SizeWithinBounds
           /\ result.color_count >= 0
           /\ result.color_count <= max_color_threshold
           /\ passedRet

\* a raster image passed with exactly as many colours as the threshold allows
C5_Witness ==
    /\ FilterReturned
    /\ result.passed
    /\ image_path = p_a_png
    /\ result.color_count = max_color_threshold
    /\ max_color_threshold = DEFAULT_THRESHOLD

(* C6: for a path with the vector extension in any letter case, whatever   *)
(* is at the path, is_minimal_style returns passed = true with color_count *)
(* -2 and makes no pixel-analysis call (no Image.open, no count_colors, no *)
(* analyze_dominant_colors).                                               *)
C6_VectorAlwaysAccepted ==
    (FilterReturned /\ image_path \in VectorPaths) =>
        /\ result.passed
        /\ passedRet
        /\ result.color_count = -2
        /\ result.reasons = <<>>
        /\ pixelOps = <<>>

\* an upper-case .SVG path with no image behind it was accepted
C6_Witness ==
    /\ FilterReturned
    /\ image_path = p_a_SVG
    /\ imageFile = NotAnImage
    /\ result.passed

(* C7: a raster image within the size bounds is accepted when its number   *)
(* of distinct colours is at most max_color_threshold, and rejected with a *)
(* reason holding the colour count when it is greater. Stated on images    *)
(* that fit the thumbnail, whose colours are counted as they are.          *)
C7_AcceptedIffWithinThreshold ==
    (RasterWithinBounds /\ FitsThumbnail) =>
        IF imageFile.colors <= max_color_threshold
        THEN result.passed
        ELSE /\ ~result.passed
             /\ result.reasons = <<Reason("Too many colors: ", <<result.color_count>>)>>

(* C8 as stated: a 2x2 image of one colour passes at threshold 10 with the *)
(* default size bounds.                                                    *)
C8_TinyFlatImagePasses ==
    ( /\ FilterReturned /\ image_path \in RasterPaths
      /\ imageFile.opens /\ imageFile.decodes
      /\ imageFile.size = <<2, 2>> /\ imageFile.colors = 1
      /\ max_color_threshold = 10
      /\ min_size = <<64, 64>> /\ max_size = <<2048, 2048>> )
        => result.passed

(* C8, amended: with threshold 10 and the default size bounds a 2x2 image  *)
(* of one colour is rejected as "Too small: 2x2" before any colour is      *)
(* counted; it passes at threshold 10 when min_size is lowered to (2, 2),  *)
(* and a one-colour image within the default size bounds that is no larger *)
(* than the 100x100 thumbnail (64x64, say) passes.                         *)
C8_TinyFlatImageTooSmallByDefault ==
    ( /\ FilterReturned /\ image_path \in RasterPaths
      /\ imageFile.opens /\ imageFile.decodes /\ imageFile.colors = 1
      /\ max_color_threshold = 10 /\ max_size = <<2048, 2048>> )
        => /\ (imageFile.size = <<2, 2>> /\ min_size = <<64, 64>>)
                => /\ ~result.passed
                   /\ ~passedRet
                   /\ result.reasons = <<Reason("Too small: ", <<2, 2>>)>>
                   /\ pixelOps = <<"open">>
           /\ (imageFile.size = <<2, 2>> /\ min_size = <<2, 2>>)
                => /\ result.passed
                   /\ result.color_count = 1
           /\ (min_size = <<64, 64>> /\ SizeWithinBounds /\ FitsThumbnail)
                => /\ result.passed
                   /\ result.color_count = 1

\* the 2x2 one-colour image was filtered at threshold 10 with the default bounds
C8_Witness ==
    /\ FilterReturned
    /\ image_path = p_a_png
    /\ imageFile = [opens |-> TRUE, decodes |-> TRUE, size |-> <<2, 2>>, colors |-> 1]
    /\ max_color_threshold = 10
    /\ min_size = <<64, 64>>
    /\ ~result.passed

ConvertReturned == rpc = "done"

(* C10: a call of convert_svg_to_png whose target path already exists      *)
(* returns True without probing or invoking any backend and leaves the     *)
(* target as it was, whatever the method argument; so once a conversion    *)
(* has written the target, every later call leaves that output in place.   *)
C10_ExistingTargetSkipped ==
    /\ (ConvertReturned /\ targetAtCall.exists)
           => /\ convRet = TRUE
              /\ backendLog = <<>>
              /\ targetFile = targetAtCall
    /\ (rpc # "idle" /\ targetAtCall.exists)
           => /\ backendLog = <<>>
              /\ targetFile = targetAtCall
    /\ (ConvertReturned /\ convRet /\ ~targetAtCall.exists)
           => targetFile = Target(calls)

\* a second call, with a method that names no backend, returned True on the
\* output the first call wrote
C10_Witness ==
    /\ ConvertReturned
    /\ calls = 2
    /\ method = "other"
    /\ targetAtCall = Target(1)
    /\ targetFile = Target(1)
    /\ convRet = TRUE


\* the record of the input files that a merged record was loaded from
FileRecordOf(repo) ==
    IF repo.obj[1] = "starred"
    THEN starredFile.repos[repo.obj[2]]
    ELSE trendingFile.repos[repo.obj[2]]

(* C13: merge_repos tags a record with its list's provenance only when the *)
(* record is not already tagged: every record of the merged output whose   *)
(* entry in its input file already carried a source value carries that     *)
(* same value, whichever of the two lists it came from.                    *)
C13_TaggedRecordsKeepSource ==
    MergeReturned =>
        \A n \in 1..Len(unique_repos) :
            FileRecordOf(unique_repos[n]).source # NoSource
                => unique_repos[n].source = FileRecordOf(unique_repos[n]).source


\* list_repo_images has run for the repository root
Listed == listLog # <<>>

\* the part of a path before its first "/": the root entry the path lies under
FirstComponent(path) ==
    LET slashes == {k \in 1..Len(path) : path[k] = "/"}
    IN  IF slashes = {} THEN path
        ELSE SubSeq(path, 1, (CHOOSE k \in slashes : \A j \in slashes : k <= j) - 1)

IsRootPath(path) == \A k \in 1..Len(path) : path[k] # "/"

\* the position, in the root listing, of the entry a path lies under
RootIndex(path) == CHOOSE k \in 1..Len(repoTree) : repoTree[k].name = FirstComponent(path)

RECURSIVE TreeNodes(_, _)
\* every entry of the repository tree, at any depth, with the directory it is in
TreeNodes(dir, entries) ==
    UNION { {[path |-> JoinPath(dir, entries[k].name), parent |-> dir,
              type |-> entries[k].type, name |-> entries[k].name]}
            \cup (IF entries[k].type = "dir"
                  THEN TreeNodes(JoinPath(dir, entries[k].name), entries[k].entries)
                  ELSE {})
          : k \in 1..Len(entries) }

(* C16 as stated: the list returned by list_repo_images for the root holds *)
(* every image file of the root directory before any image file of a       *)
(* recursed subdirectory, and the subdirectories' files come grouped in    *)
(* the order the subdirectories were visited.                              *)
C16_RootImagesBeforeSubdirectoryImages ==
    Listed =>
        /\ \A p, q \in 1..Len(logo_files) :
               (IsRootPath(logo_files[p]) /\ ~IsRootPath(logo_files[q])) => p < q
        /\ \A p, q \in 1..Len(logo_files) :
               (~IsRootPath(logo_files[p]) /\ ~IsRootPath(logo_files[q]) /\ p < q)
                   => RootIndex(logo_files[p]) <= RootIndex(logo_files[q])

(* C16, amended: the list returned by list_repo_images for the root is in  *)
(* depth-first listing order: the images are ordered by the position, in   *)
(* the root listing, of the root entry they lie under (a root image file   *)
(* itself, or the allow-listed directory holding them), so the images of a *)
(* subdirectory come before every root image listed after that directory;  *)
(* no path is listed twice and, when the root listing succeeded, every     *)
(* root image file is in the list.                                         *)
C16_ImagesInDepthFirstListingOrder ==
    Listed =>
        /\ \A p, q \in 1..Len(logo_files) :
               p < q => RootIndex(logo_files[p]) <= RootIndex(logo_files[q])
        /\ \A p, q \in 1..Len(logo_files) : logo_files[p] = logo_files[q] => p = q
        /\ <<>> \notin failedDirs =>
               \A k \in 1..Len(repoTree) :
                   (repoTree[k].type = "file" /\ IsImageName(repoTree[k].name))
                       => repoTree[k].name \in Range(logo_files)

\* a listing in which an image of a subdirectory precedes an image of the root
C16_Witness ==
    /\ Listed
    /\ \E p, q \in 1..Len(logo_files) :
           /\ p < q
           /\ ~IsRootPath(logo_files[p])
           /\ IsRootPath(logo_files[q])

(* C17: list_repo_images descends only into directories whose lowercased   *)
(* name is in the allow-list; on every repository tree it ends having      *)
(* requested the root and each allow-listed directory whose parent's       *)
(* listing was requested and succeeded exactly once, and nothing else; a   *)
(* failed listing contributes no entries and every image file of a         *)
(* directory whose listing succeeded is still returned.                    *)
C17_EachReachableAllowedDirectoryListedOnce ==
    Listed =>
        /\ \A p, q \in 1..Len(listLog) : listLog[p] = listLog[q] => p = q
        /\ listLog[1] = <<>>
        /\ Range(listLog) \subseteq
               {<<>>} \cup {n.path : n \in {m \in TreeNodes(<<>>, repoTree) : m.type = "dir"}}
        /\ \A n \in TreeNodes(<<>>, repoTree) :
               /\ n.type = "dir" =>
                     (n.path \in Range(listLog)
                        <=> /\ Lower(n.name) \in IMAGE_DIRS
                            /\ n.parent \in Range(listLog)
                            /\ n.parent \notin failedDirs)
               /\ n.type = "file" =>
                     (n.path \in Range(logo_files)
                        <=> /\ IsImageName(n.name)
                            /\ n.parent \in Range(listLog)
                            /\ n.parent \notin failedDirs)

\* a listing of a tree three directories deep, with a directory outside the
\* allow-list left alone, a failed subdirectory listing, and an image of
\* another directory returned all the same
C17_Witness ==
    /\ Listed
    /\ Len(listLog) >= 3
    /\ failedDirs # {}
    /\ <<>> \notin failedDirs
    /\ logo_files # <<>>
    /\ \E n \in TreeNodes(<<>>, repoTree) :
           n.type = "dir" /\ Lower(n.name) \notin IMAGE_DIRS /\ n.path \notin Range(listLog)
    /\ \E n \in TreeNodes(<<>>, repoTree) :
           n.type = "dir" /\ Len(SelectSeq(n.path, LAMBDA c : c = "/")) = 2
               /\ n.path \in Range(listLog)


(* C11: filter_minimal_logos never aborts because of its items: for every  *)
(* metadata list it has read, the empty list included, it runs to          *)
(* completion and returns the filtered list; the only exception that may   *)
(* leave it is a failure to write a top-level JSON state file.             *)
C11_BatchNeverAborts ==
    bpc = "raised" => raised = StateFileError

\* the records an uninterrupted run with no failing save returns: one for
\* every item whose repository has a logo, in the order of the list
UninterruptedResults ==
    LET withLogo == SelectSeq(repos, LAMBDA r : HasLogo(upstream[r]))
    IN  [k \in 1..Len(withLogo) |-> ResultRecord(withLogo[k], upstream[withLogo[k]].ext)]

BatchResolved ==
    IF methodArg # "auto" THEN methodArg
    ELSE IF "cairosvg" \in converters THEN "cairosvg"
    ELSE IF "inkscape" \in converters THEN "inkscape"
    ELSE "imagemagick"

(* C14: in auto mode the backend is picked by availability in the order    *)
(* cairosvg, Inkscape, ImageMagick; batch_convert probes and chooses once, *)
(* passes the resolved backend to every per-file call, runs no other       *)
(* backend, calls convert_svg_to_png for every file whatever the earlier   *)
(* calls returned, and returns the number of calls that returned True.     *)
C14_BackendChosenOnceBatchContinues ==
    /\ (kpc \in {"loop", "done"} /\ svg_files # <<>>) =>
           /\ batchMethod = BatchResolved
           /\ probeLog \in {<<>>, <<"import cairosvg">>,
                            <<"import cairosvg", "inkscape --version">>}
           /\ (probeLog = <<>>) <=> (methodArg # "auto")
           /\ (probeLog = <<"import cairosvg">>)
                  <=> (methodArg = "auto" /\ "cairosvg" \in converters)
    /\ \A c \in 1..Len(callLog) :
           /\ callLog[c].method = BatchResolved
           /\ callLog[c].ran \in {NoBackend, BatchResolved}
    /\ (kpc = "done" /\ svg_files # <<>>) =>
           /\ Len(callLog) = Len(svg_files)
           /\ batchRet = Cardinality({c \in 1..Len(callLog) : callLog[c].ret})
    /\ (kpc = "done" /\ svg_files = <<>>) => batchRet = 0 /\ callLog = <<>>

\* an auto batch on a machine without cairosvg and with Inkscape: the first
\* file's conversion failed, the second was converted all the same, and 1 is
\* returned
C14_Witness ==
    /\ kpc = "done"
    /\ methodArg = "auto"
    /\ converters = {"inkscape", "imagemagick"}
    /\ Len(callLog) = 2
    /\ callLog[1] = [method |-> "inkscape", ret |-> FALSE, ran |-> "inkscape"]
    /\ callLog[2] = [method |-> "inkscape", ret |-> TRUE, ran |-> "inkscape"]
    /\ batchRet = 1

(* C15: in download_repo_logos a sleep of `delay` occurs between every two *)
(* consecutive items, whatever the outcome for the earlier one: every      *)
(* item's network requests but the first's come right after a sleep.       *)
C15_SleepBetweenConsecutiveItems ==
    \A p \in 2..Len(netLog) : netLog[p] = "find" => netLog[p - 1] = "sleep"

(* C18: with every request succeeding, fetch_starred_repos returns exactly *)
(* the first min(limit, total) repositories of the upstream ranking, in    *)
(* order, none repeated and none skipped, for every limit and per_page.    *)
C18_ReturnsFirstRepositoriesInOrder ==
    (spc = "done" /\ ~anyFailed) =>
        starredRet = [k \in 1..Min(limit, total) |-> k]

Spec == SpecMerge
=============================================================================
